---------------------------- MODULE Spec2Model ----------------------------
(***************************************************************************)
(* The marker upload form of quickscan-ar (src/src/components/             *)
(* UploadInterface.tsx): the marker quality heuristic validateMarkerImage  *)
(* and the handlers around it.                                             *)
(*                                                                         *)
(* Numbers.  The code computes in IEEE doubles; the model computes the     *)
(* same expressions in exact rational arithmetic (a pair num/den in lowest *)
(* terms), so 1/3 is one third and no rounding takes place.                *)
(***************************************************************************)
EXTENDS Integers, Sequences, FiniteSets, TLC

(***************************************************************************)
(* Exact rationals.                                                        *)
(***************************************************************************)
Abs(x) == IF x < 0 THEN -x ELSE x

RECURSIVE Gcd(_, _)
Gcd(a, b) == IF b = 0 THEN a ELSE Gcd(b, a % b)

\* The element of a one-element set.  An operand is bound as v \in {e}, so
\* that e is evaluated once whatever the number of its uses.
The(S) == CHOOSE r \in S : TRUE

\* n/d in lowest terms with a positive denominator (d # 0).
Rat(n, d) ==
    The({ [num |-> (IF b < 0 THEN -1 ELSE 1) * (a \div g),
           den |-> (IF b < 0 THEN -1 ELSE 1) * (b \div g)] :
          <<a, b, g>> \in { <<v, w, Gcd(Abs(v), Abs(w))>> : v \in {n}, w \in {d} } })

RatInt(n) == [num |-> n, den |-> 1]

RatLess(x, y) == \E a \in {x}, b \in {y} : a.num * b.den < b.num * a.den

RatAdd(x, y) ==
    The({ Rat(t[1].num * (t[2].den \div t[3]) + t[2].num * (t[1].den \div t[3]),
              t[1].den * (t[2].den \div t[3])) :
          t \in { <<a, b, Gcd(a.den, b.den)>> : a \in {x}, b \in {y} } })

\* cross-reduced first, so the products stay small
RatMul(x, y) ==
    The({ IF t[1].num = 0 \/ t[2].num = 0 THEN RatInt(0)
          ELSE [num |-> (t[1].num \div t[3]) * (t[2].num \div t[4]),
                den |-> (t[1].den \div t[4]) * (t[2].den \div t[3])] :
          t \in { <<a, b, Gcd(Abs(a.num), b.den), Gcd(Abs(b.num), a.den)>> :
                  a \in {x}, b \in {y} } })

\* y # 0
RatDiv(x, y) ==
    RatMul(x, The({ IF b.num < 0 THEN [num |-> -b.den, den |-> -b.num]
                                 ELSE [num |-> b.den, den |-> b.num] :
                    b \in {y} }))

\* Math.max, Math.min
RatMax(x, y) == The({ IF RatLess(a, b) THEN b ELSE a : a \in {x}, b \in {y} })
RatMin(x, y) == The({ IF RatLess(b, a) THEN b ELSE a : a \in {x}, b \in {y} })

(***************************************************************************)
(* Image samples.  A decoded image is its width, its height and its pixel  *)
(* grid; the grid is given as a tile of tw x th colours repeated over the  *)
(* image, so that a 256x256 image is a value of constant size.  A tile as  *)
(* large as the image is an arbitrary pixel grid.                          *)
(***************************************************************************)
Black  == <<0, 0, 0>>
White  == <<255, 255, 255>>
Grey30 == <<30, 30, 30>>
Grey45 == <<45, 45, 45>>
Dusk31 == <<31, 30, 30>>
Red    == <<255, 0, 0>>
Palette == {Black, Grey30, White}

\* The RGB colour of pixel p (row-major) of img.
PixelAt(img, p) ==
    LET row == p \div img.width
        col == p % img.width
    IN  img.tile[(row % img.th) * img.tw + (col % img.tw) + 1]

BytesPerPixel == 4

\* imageData.data: RGBA bytes in row-major order; a drawn image is opaque.
DataLength(img) == img.width * img.height * BytesPerPixel

Data(img, i) ==
    LET px == PixelAt(img, i \div BytesPerPixel)
        ch == i % BytesPerPixel
    IN  IF ch = 3 THEN 255 ELSE px[ch + 1]

(***************************************************************************)
(* validateMarkerImage: the body of img.onload.                            *)
(*                                                                         *)
(* Inside the pixel loop every brightness is a multiple of 1/3, so the     *)
(* loop carries brightness, contrast and totalContrast in thirds: the      *)
(* integer n stands for the number n/3.  Thirds(x) is the number 3x.       *)
(***************************************************************************)
Thirds(x) == 3 * x

EdgeThreshold == 30

\* brightness = (r + g + b) / 3 of the pixel whose bytes start at i, in
\* thirds: Data(img, i) + Data(img, i + 1) + Data(img, i + 2), the pixel
\* looked up once
Brightness(img, i) ==
    LET px == PixelAt(img, i \div BytesPerPixel)
    IN  px[1] + px[2] + px[3]

\* if (i > img.width * 4): whether the pixel at byte i is compared
Compared(img, i) == i > img.width * BytesPerPixel

\* if (contrast > 30), contrast in thirds
IsEdge(contrast) == contrast > Thirds(EdgeThreshold)

\* LoopBody reading the pixel above one byte too far (g, b and alpha).
LoopBodyShifted(img, i, acc) ==
    IF Compared(img, i)
    THEN LET brightness     == Brightness(img, i)
             above          == i - img.width * BytesPerPixel
             prevBrightness == Data(img, above + 1) + Data(img, above + 2)
                                 + Data(img, above + 3)
             contrast       == Abs(brightness - prevBrightness)
         IN  [totalContrast |-> acc.totalContrast + contrast,
              edgeCount     |-> IF IsEdge(contrast)
                                THEN acc.edgeCount + 1 ELSE acc.edgeCount]
    ELSE acc

\* LoopBody comparing with the pixel before instead of the pixel above.
LoopBodyHorizontal(img, i, acc) ==
    IF Compared(img, i)
    THEN LET brightness     == Brightness(img, i)
             prevBrightness == Brightness(img, i - BytesPerPixel)
             contrast       == Abs(brightness - prevBrightness)
         IN  [totalContrast |-> acc.totalContrast + contrast,
              edgeCount     |-> IF IsEdge(contrast)
                                THEN acc.edgeCount + 1 ELSE acc.edgeCount]
    ELSE acc

\* LoopBody comparing with the pixel above and to the left.
LoopBodyDiagonal(img, i, acc) ==
    IF Compared(img, i)
    THEN LET brightness     == Brightness(img, i)
             prevBrightness == Brightness(img, i - img.width * BytesPerPixel
                                                 - BytesPerPixel)
             contrast       == Abs(brightness - prevBrightness)
         IN  [totalContrast |-> acc.totalContrast + contrast,
              edgeCount     |-> IF IsEdge(contrast)
                                THEN acc.edgeCount + 1 ELSE acc.edgeCount]
    ELSE acc

\* One iteration of the for loop (lines 43-56) on the accumulators acc.
LoopBody(img, i, acc) ==
    IF Compared(img, i)
    THEN LET brightness     == Brightness(img, i)
             prevBrightness == Brightness(img, i - img.width * BytesPerPixel)
             contrast       == Abs(brightness - prevBrightness)
         IN  [totalContrast |-> acc.totalContrast + contrast,
              edgeCount     |-> IF IsEdge(contrast)
                                THEN acc.edgeCount + 1 ELSE acc.edgeCount]
    ELSE acc

\* The iterations for pixels lo .. hi-1 in order, starting from acc.  The
\* range is split in halves only to keep the recursion shallow: the second
\* half starts from the accumulators the first half has left.
RECURSIVE Loop(_, _, _, _)
Loop(img, lo, hi, acc) ==
    IF hi <= lo THEN acc
    ELSE IF hi = lo + 1 THEN LoopBody(img, lo * BytesPerPixel, acc)
    ELSE The({ Loop(img, (lo + hi) \div 2, hi, first) :
               first \in { Loop(img, lo, (lo + hi) \div 2, acc) } })

\* let totalContrast = 0; let edgeCount = 0; for (...) {...}
Scan(img) ==
    Loop(img, 0, DataLength(img) \div BytesPerPixel,
         [totalContrast |-> 0, edgeCount |-> 0])

\* Quality without the floor of 60.
QualityUnfloored(avgContrast, edgeDensity) ==
    RatMin(RatInt(100),
           RatAdd(RatMul(RatDiv(avgContrast, RatInt(30)), RatInt(100)),
                  RatMul(edgeDensity, RatInt(1000))))

\* Quality weighing the edge density by 100 instead of 1000.
QualityWeakEdges(avgContrast, edgeDensity) ==
    RatMin(RatInt(100),
           RatMax(RatInt(60),
                  RatAdd(RatMul(RatDiv(avgContrast, RatInt(30)), RatInt(100)),
                         RatMul(edgeDensity, RatInt(100)))))

\* Math.min(100, Math.max(60, (avgContrast / 30) * 100 + (edgeDensity * 1000)))
Quality(avgContrast, edgeDensity) ==
    RatMin(RatInt(100),
           RatMax(RatInt(60),
                  RatAdd(RatMul(RatDiv(avgContrast, RatInt(30)), RatInt(100)),
                         RatMul(edgeDensity, RatInt(1000)))))

MinResolution == 256
LowContrast   == 15
SparseEdges   == Rat(1, 10)

ResolutionIssue == "Image resolution is too low"
ResolutionRec   == "Use images with at least 256x256 resolution"
AspectIssue     == "Unusual aspect ratio detected"
AspectRec       == "Use images with aspect ratios between 1:2 and 2:1"
ContrastIssue   == "Low contrast detected"
ContrastRec     == "Use images with clear, high-contrast features"
EdgeRec         == "Add more distinct features or patterns for better tracking"

\* The three tests with the bound included.
ResolutionTooLowInclusive(img) ==
    img.width <= MinResolution \/ img.height <= MinResolution

AspectUnusualInclusive(img) ==
    LET aspectRatio == Rat(img.width, img.height)
    IN  ~RatLess(Rat(1, 2), aspectRatio) \/ ~RatLess(aspectRatio, RatInt(2))

ContrastTooLowInclusive(avgContrast) == ~RatLess(RatInt(LowContrast), avgContrast)

EdgesTooSparseInclusive(edgeDensity) == ~RatLess(SparseEdges, edgeDensity)

\* if (img.width < 256 || img.height < 256)
ResolutionTooLow(img) == img.width < MinResolution \/ img.height < MinResolution

\* const aspectRatio = img.width / img.height;
\* if (aspectRatio < 0.5 || aspectRatio > 2)
AspectUnusual(img) ==
    LET aspectRatio == Rat(img.width, img.height)
    IN  RatLess(aspectRatio, Rat(1, 2)) \/ RatLess(RatInt(2), aspectRatio)

\* if (avgContrast < 15)
ContrastTooLow(avgContrast) == RatLess(avgContrast, RatInt(LowContrast))

\* if (edgeDensity < 0.1)
EdgesTooSparse(edgeDensity) == RatLess(edgeDensity, SparseEdges)

\* Issues with the contrast test made first.
IssuesContrastFirst(img, avgContrast) ==
       (IF ContrastTooLow(avgContrast) THEN <<ContrastIssue>> ELSE <<>>)
    \o (IF ResolutionTooLow(img) THEN <<ResolutionIssue>> ELSE <<>>)
    \o (IF AspectUnusual(img) THEN <<AspectIssue>> ELSE <<>>)

\* issues.push(..) / recommendations.push(..) of lines 64-89, in order
Issues(img, avgContrast) ==
       (IF ResolutionTooLow(img) THEN <<ResolutionIssue>> ELSE <<>>)
    \o (IF AspectUnusual(img) THEN <<AspectIssue>> ELSE <<>>)
    \o (IF ContrastTooLow(avgContrast) THEN <<ContrastIssue>> ELSE <<>>)

Recommendations(img, avgContrast, edgeDensity) ==
       (IF ResolutionTooLow(img) THEN <<ResolutionRec>> ELSE <<>>)
    \o (IF AspectUnusual(img) THEN <<AspectRec>> ELSE <<>>)
    \o (IF ContrastTooLow(avgContrast) THEN <<ContrastRec>> ELSE <<>>)
    \o (IF EdgesTooSparse(edgeDensity) THEN <<EdgeRec>> ELSE <<>>)

\* Onload averaging over data.length, the byte count, instead of the pixel
\* count data.length / 4.
OnloadPerByte(img) ==
    The({ [totalContrast |-> Rat(t.scan.totalContrast, Thirds(1)),
           edgeCount     |-> t.scan.edgeCount,
           avgContrast   |-> t.avgContrast,
           edgeDensity   |-> t.edgeDensity,
           result        |->
               [quality         |-> Quality(t.avgContrast, t.edgeDensity),
                issues          |-> Issues(img, t.avgContrast),
                recommendations |->
                    Recommendations(img, t.avgContrast, t.edgeDensity)]] :
          t \in { [scan        |-> scan,
                   avgContrast |-> RatDiv(Rat(scan.totalContrast, Thirds(1)),
                                          RatInt(DataLength(img))),
                   edgeDensity |-> RatDiv(RatInt(scan.edgeCount),
                                          RatInt(DataLength(img)))] :
                   scan \in {Scan(img)} } })

\* The body of img.onload up to the call of resolve (lines 32-91): the
\* handler's locals when it returns; result is the value passed to resolve.
\*   const avgContrast = totalContrast / (data.length / 4);
\*   const edgeDensity = edgeCount / (data.length / 4);
Onload(img) ==
    The({ [totalContrast |-> Rat(t.scan.totalContrast, Thirds(1)),
           edgeCount     |-> t.scan.edgeCount,
           avgContrast   |-> t.avgContrast,
           edgeDensity   |-> t.edgeDensity,
           result        |->
               [quality         |-> Quality(t.avgContrast, t.edgeDensity),
                issues          |-> Issues(img, t.avgContrast),
                recommendations |->
                    Recommendations(img, t.avgContrast, t.edgeDensity)]] :
          t \in { [scan        |-> scan,
                   avgContrast |-> RatDiv(Rat(scan.totalContrast, Thirds(1)),
                                          RatInt(DataLength(img) \div BytesPerPixel)),
                   edgeDensity |-> RatDiv(RatInt(scan.edgeCount),
                                          RatInt(DataLength(img) \div BytesPerPixel))] :
                   scan \in {Scan(img)} } })

\* The colour class of the displayed quality figure (lines 262-265)
QualityColour(quality) ==
    IF ~RatLess(quality, RatInt(80)) THEN "green"
    ELSE IF ~RatLess(quality, RatInt(60)) THEN "yellow"
    ELSE "red"

(***************************************************************************)
(* Inputs: the images and files a user can select.                         *)
(***************************************************************************)
Img(w, h, tw, th, tile) ==
    [width |-> w, height |-> h, tw |-> tw, th |-> th, tile |-> tile]

MaxPixels == 6

\* every pixel grid of at most MaxPixels pixels over the palette
SmallImages ==
    UNION { { Img(w, h, w, h, t) : t \in [1 .. w * h -> Palette] } :
            <<w, h>> \in { d \in (1 .. MaxPixels) \X (1 .. MaxPixels) :
                           d[1] * d[2] <= MaxPixels } }

\* strips one pixel wide: contrasts at and around the thresholds
StripImages ==
    { Img(1, 3, 1, 3, <<Black, Black, Grey45>>),
      Img(1, 5, 1, 1, <<Dusk31>>),
      Img(1, 6, 1, 2, <<Black, Dusk31>>),
      Img(1, 8, 1, 2, <<Black, Grey30>>),
      Img(1, 10, 1, 10, <<Black, Black, Black, Black, Black,
                          White, White, White, White, White>>),
      Img(1, 10, 1, 10, <<Black, White, White, White, White,
                          White, White, White, White, White>>),
      Img(1, 10, 1, 10, <<Black, Black, Black, Black, Black,
                          Dusk31, Dusk31, Dusk31, Dusk31, Dusk31>>),
      Img(1, 20, 1, 20, <<Black, Black, White, Black, Black, Black, Black,
                          Black, Black, Black, Black, Black, Black, Black,
                          Black, Black, Black, Black, Black, Black>>),
      Img(10, 10, 1, 10, <<Black, Black, Black, Black, Black,
                           Red, Red, Red, Red, Red>>) }

\* images at the resolution threshold and the sizes the specification names
LargeImages ==
       { Img(256, 256, 1, 1, <<c>>) : c \in {Black, White} }
  \cup { Img(257, 257, 1, 1, <<Red>>),
         Img(256, 256, 1, 2, <<Black, White>>),
         Img(255, 256, 1, 2, <<Black, White>>),
         Img(256, 255, 1, 2, <<Black, White>>),
         Img(513, 256, 1, 2, <<Black, White>>),
         Img(1000, 100, 2, 1, <<Black, White>>),
         Img(200, 100, 1, 2, <<Black, White>>),
         Img(100, 200, 1, 1, <<Dusk31>>),
         Img(99, 200, 1, 1, <<Grey45>>) }
  \cup { Img(100, 100, 1, 2, t) :
         t \in {Black, Grey30, Dusk31, White} \X {Black, Grey30, Dusk31, White} }

Null == <<>>
Some(x) == <<x>>

\* A File: its name, its MIME type and, when the browser can decode it, the
\* pixel grid it decodes to.
ImageFile(n, img) == [name |-> n, type |-> "image/png", decoded |-> Some(img)]
CorruptFile == [name |-> "corrupt.png", type |-> "image/png", decoded |-> Null]
PdfFile     == [name |-> "notes.pdf", type |-> "application/pdf", decoded |-> Null]

VideoFile   == [name |-> "clip.mp4", type |-> "video/mp4", decoded |-> Null]
\* a browser reports no MIME type for a .glb file
ModelFile   == [name |-> "model.glb", type |-> "", decoded |-> Null]

\* file.type.startsWith('image/')
IsImageType(f) == f.type = "image/png"

\* file.type.startsWith('video/')
IsVideoType(f) == f.type = "video/mp4"

\* file.name.endsWith('.glb') || file.name.endsWith('.gltf'), over the names
\* of the files above
IsModelName(f) == f.name \in {"model.glb"}

\* The text of an input field is a sequence of characters.
RECURSIVE TrimStart(_)
TrimStart(s) == IF s # <<>> /\ Head(s) = " " THEN TrimStart(Tail(s)) ELSE s

RECURSIVE TrimEnd(_)
TrimEnd(s) ==
    IF s # <<>> /\ s[Len(s)] = " " THEN TrimEnd(SubSeq(s, 1, Len(s) - 1)) ELSE s

\* String.prototype.trim
Trim(s) == TrimEnd(TrimStart(s))

\* what the user types into the name and the description field
Names        == { <<>>, <<" ">>, <<"A">> }
Descriptions == { <<>>, <<"d">> }

SmallFiles == { ImageFile("marker.png", i) : i \in SmallImages \cup StripImages }
LargeFiles == { ImageFile("marker.png", i) : i \in LargeImages }

\* the files of a session with several selections
FormDisk ==
    { ImageFile("a.png", Img(1, 3, 1, 3, <<Black, Black, White>>)),
      ImageFile("copy-of-a.png", Img(1, 3, 1, 3, <<Black, Black, White>>)),
      ImageFile("b.png", Img(2, 1, 1, 1, <<Grey30>>)),
      CorruptFile, PdfFile }

\* the files of a session without a file that fails to decode: no Image
\* gets an error event
AppDisk ==
    { ImageFile("a.png", Img(1, 3, 1, 3, <<Black, Black, White>>)), VideoFile }

\* the files of a session that goes on to submit the form
UploadDisk ==
    { ImageFile("a.png", Img(1, 3, 1, 3, <<Black, Black, White>>)),
      CorruptFile, VideoFile, ModelFile }

(***************************************************************************)
(* The upload form.                                                        *)
(***************************************************************************)
VARIABLES
    disk,               \* the files the user can select (fixed)
    limit,              \* how many validations and submissions may start
    markerFile,         \* useState<File | null>
    markerValidation,   \* useState<ValidationResult | null>
    calls,              \* the invocations of validateMarkerImage, in order
    contentFile,        \* useState<File | null>
    name,               \* useState('')
    description,        \* useState('')
    uploading,          \* useState(false)
    submits,            \* the invocations of handleSubmit, in order
    alerts,             \* how many times alert() was called
    completions,        \* how many times onUploadComplete was called
    markers,            \* the objects of the storage bucket 'ar-markers'
    contents,           \* the objects of the storage bucket 'ar-content'
    experiences,        \* the rows of the table ar_experiences
    requests,           \* the invocations of upload-experience, in order
    viewMode,           \* App: useState<ViewMode>('gallery')
    selectedExperience, \* App: useState<ARExperience | null>(null)
    gallery             \* ExperienceGallery: loading, error, experiences

\* the rest of the form's state, next to the marker and its validation
formVars ==
    <<contentFile, name, description, uploading, submits, alerts, completions>>

\* the state behind the two edge functions
serverVars == <<markers, contents, experiences, requests>>

\* the state of App and of the gallery it renders
appVars == <<viewMode, selectedExperience, gallery>>

vars ==
    <<disk, limit, markerFile, markerValidation, calls, formVars, serverVars,
      appVars>>

MaxCalls == 3

MaxSubmits == 1

\* A call of validateMarkerImage(file) made by handleMarkerUpload:
\*   img      "loading" after img.src is set, "loaded" once the load event
\*            was delivered, "error" once the error event was
\*   promise  the state of the returned promise, value its fulfilment value
\*   resolved how often resolve was called
\*   locals   the locals of img.onload when it returned
\*   awaiter  handleMarkerUpload at its await: "waiting" or "resumed"
NewCall(file) ==
    [file |-> file, img |-> "loading", promise |-> "pending", value |-> Null,
     resolved |-> 0, locals |-> Null, awaiter |-> "waiting"]

\* useState initial values of lines 18-21; nothing submitted yet
InitFields ==
    /\ contentFile = Null
    /\ name = <<>>
    /\ description = <<>>
    /\ uploading = FALSE
    /\ submits = <<>>
    /\ alerts = 0
    /\ completions = 0

\* The state of an ExperienceGallery as it mounts (lines 12-14, 30-32): the
\* effect has called loadExperiences, whose getExperiences is pending while
\* loading is true.  A component that is not mounted has the state its next
\* instance will start with.
GalleryMounted == [loading |-> TRUE, error |-> FALSE, experiences |-> {}]

\* App as it is constructed: the gallery is shown
InitApp ==
    /\ viewMode = "gallery"
    /\ selectedExperience = Null
    /\ gallery = GalleryMounted

\* App after Create New: the upload form has just been mounted
InitUploadView ==
    /\ viewMode = "upload"
    /\ selectedExperience = Null
    /\ gallery = GalleryMounted

\* empty buckets, an empty table, no request received
InitServer ==
    /\ markers = {}
    /\ contents = {}
    /\ experiences = {}
    /\ requests = <<>>

\* The form as mounted, in a session with several files to select.
Init ==
    /\ disk = FormDisk
    /\ limit = [calls |-> MaxCalls, submits |-> MaxSubmits]
    /\ markerFile = Null
    /\ markerValidation = Null
    /\ calls = <<>>
    /\ InitFields
    /\ InitServer
    /\ InitUploadView

\* One validation of one file: the heuristic as a function of its input,
\* over the small pixel grids and over the large images.
InitSmall ==
    /\ disk \in { {f} : f \in SmallFiles \cup {CorruptFile, PdfFile} }
    /\ limit = [calls |-> 1, submits |-> MaxSubmits]
    /\ markerFile = Null
    /\ markerValidation = Null
    /\ calls = <<>>
    /\ InitFields
    /\ InitServer
    /\ InitUploadView

InitLarge ==
    /\ disk \in { {f} : f \in LargeFiles \cup {CorruptFile, PdfFile} }
    /\ limit = [calls |-> 1, submits |-> MaxSubmits]
    /\ markerFile = Null
    /\ markerValidation = Null
    /\ calls = <<>>
    /\ InitFields
    /\ InitServer
    /\ InitUploadView

\* The form with fewer validations, for the behaviours under fairness.
MaxFairCalls == 2

InitFair ==
    /\ disk = FormDisk
    /\ limit = [calls |-> MaxFairCalls, submits |-> MaxSubmits]
    /\ markerFile = Null
    /\ markerValidation = Null
    /\ calls = <<>>
    /\ InitFields
    /\ InitServer
    /\ InitUploadView

\* HandleMarkerUpload validating an image file twice.
HandleMarkerUploadTwice(file) ==
    /\ viewMode = "upload"
    /\ markerFile' = Some(file)
    /\ IF IsImageType(file)
       THEN /\ Len(calls) + 1 < limit.calls
            /\ calls' = calls \o <<NewCall(file), NewCall(file)>>
       ELSE calls' = calls
    /\ UNCHANGED <<appVars, serverVars, disk, limit, markerValidation, formVars>>

\* HandleMarkerUpload showing the form as busy while it validates.
HandleMarkerUploadBusy(file) ==
    /\ viewMode = "upload"
    /\ markerFile' = Some(file)
    /\ IF IsImageType(file)
       THEN /\ Len(calls) < limit.calls
            /\ calls' = Append(calls, NewCall(file))
            /\ uploading' = TRUE
       ELSE /\ calls' = calls
            /\ uploading' = uploading
    /\ UNCHANGED <<appVars, serverVars, disk, limit, markerValidation, contentFile, name,
                   description, submits, alerts, completions>>

\* handleMarkerUpload(file) up to its await (lines 98-101); the Image of
\* validateMarkerImage starts loading when img.src is set (line 94).
HandleMarkerUpload(file) ==
    /\ viewMode = "upload"
    /\ markerFile' = Some(file)
    /\ IF IsImageType(file)
       THEN /\ Len(calls) < limit.calls
            /\ calls' = Append(calls, NewCall(file))
       ELSE calls' = calls
    /\ UNCHANGED <<appVars, serverVars, disk, limit, markerValidation, formVars>>

\* onChange of the marker file input (line 232): any file the user picks
MarkerInputChange(file) ==
    /\ file \in disk
    /\ HandleMarkerUpload(file)

\* handleDrop(e, 'marker') (lines 106-116): only image types get through
HandleDropMarker(file) ==
    /\ file \in disk
    /\ IsImageType(file)
    /\ HandleMarkerUpload(file)

\* ImgOnload returning without a call of resolve.
ImgOnloadSilent(c) ==
    /\ c \in 1 .. Len(calls)
    /\ calls[c].img = "loading"
    /\ calls[c].file.decoded # Null
    /\ \E locals \in {Onload(calls[c].file.decoded[1])} :
           calls' = [calls EXCEPT ![c] =
                [@ EXCEPT !.img = "loaded", !.locals = Some(locals)]]
    /\ UNCHANGED <<appVars, serverVars, disk, limit, markerFile, markerValidation, formVars>>

\* ImgOnload resolving with the result on display when there is one.
ImgOnloadCached(c) ==
    /\ c \in 1 .. Len(calls)
    /\ calls[c].img = "loading"
    /\ calls[c].file.decoded # Null
    /\ \E locals \in {Onload(calls[c].file.decoded[1])} :
           calls' = [calls EXCEPT ![c] =
                [@ EXCEPT !.img = "loaded",
                          !.locals = Some(locals),
                          !.promise = "fulfilled",
                          !.value = IF markerValidation # Null
                                    THEN markerValidation
                                    ELSE Some(locals.result),
                          !.resolved = @ + 1]]
    /\ UNCHANGED <<appVars, serverVars, disk, limit, markerFile, markerValidation, formVars>>

\* The load event of call c's Image: img.onload runs and calls resolve.
ImgOnload(c) ==
    /\ c \in 1 .. Len(calls)
    /\ calls[c].img = "loading"
    /\ calls[c].file.decoded # Null
    /\ \E locals \in {Onload(calls[c].file.decoded[1])} :
           calls' = [calls EXCEPT ![c] =
                [@ EXCEPT !.img = "loaded",
                          !.locals = Some(locals),
                          !.promise = IF @ = "pending" THEN "fulfilled" ELSE @,
                          !.value = IF calls[c].promise = "pending"
                                    THEN Some(locals.result) ELSE @,
                          !.resolved = @ + 1]]
    /\ UNCHANGED <<appVars, serverVars, disk, limit, markerFile, markerValidation, formVars>>

\* The error event of call c's Image: the file does not decode.  No onerror
\* handler is registered, so nothing runs and the promise stays as it is.
ImgError(c) ==
    /\ c \in 1 .. Len(calls)
    /\ calls[c].img = "loading"
    /\ calls[c].file.decoded = Null
    /\ calls' = [calls EXCEPT ![c].img = "error"]
    /\ UNCHANGED <<appVars, serverVars, disk, limit, markerFile, markerValidation, formVars>>

\* ResumeHandleMarkerUpload dropping the result of every call but the last
\* one started.
ResumeLatestOnly(c) ==
    /\ c \in 1 .. Len(calls)
    /\ calls[c].promise = "fulfilled"
    /\ calls[c].awaiter = "waiting"
    /\ markerValidation' = IF c = Len(calls) THEN calls[c].value
                           ELSE markerValidation
    /\ calls' = [calls EXCEPT ![c].awaiter = "resumed"]
    /\ UNCHANGED <<appVars, serverVars, disk, limit, markerFile, formVars>>

\* handleMarkerUpload after its await (line 102): setMarkerValidation
ResumeHandleMarkerUpload(c) ==
    /\ c \in 1 .. Len(calls)
    /\ calls[c].promise = "fulfilled"
    /\ calls[c].awaiter = "waiting"
    /\ markerValidation' = calls[c].value
    /\ calls' = [calls EXCEPT ![c].awaiter = "resumed"]
    /\ UNCHANGED <<appVars, serverVars, disk, limit, markerFile, formVars>>

\* onChange of the content file input (line 328): any file the user picks
ContentInputChange(file) ==
    /\ viewMode = "upload"
    /\ file \in disk
    /\ contentFile' = Some(file)
    /\ UNCHANGED <<appVars, serverVars, disk, limit, markerFile, markerValidation, calls, name,
                   description, uploading, submits, alerts, completions>>

\* handleDrop(e, 'content') (lines 106-119): a video or a .glb/.gltf file
HandleDropContent(file) ==
    /\ viewMode = "upload"
    /\ file \in disk
    /\ IsVideoType(file) \/ IsModelName(file)
    /\ contentFile' = Some(file)
    /\ UNCHANGED <<appVars, serverVars, disk, limit, markerFile, markerValidation, calls, name,
                   description, uploading, submits, alerts, completions>>

\* onChange of the name input (line 186)
SetName(value) ==
    /\ viewMode = "upload"
    /\ name' = value
    /\ UNCHANGED <<appVars, serverVars, disk, limit, markerFile, markerValidation, calls,
                   contentFile, description, uploading, submits, alerts,
                   completions>>

\* onChange of the description field (line 200)
SetDescription(value) ==
    /\ viewMode = "upload"
    /\ description' = value
    /\ UNCHANGED <<appVars, serverVars, disk, limit, markerFile, markerValidation, calls,
                   contentFile, name, uploading, submits, alerts, completions>>

\* HandleSubmit sending the content type 'video' for every file.
HandleSubmitVideoOnly ==
    /\ viewMode = "upload"
    /\ markerFile # Null /\ contentFile # Null /\ Trim(name) # <<>>
    /\ ~uploading
    /\ Len(submits) < limit.submits
    /\ uploading' = TRUE
    /\ submits' = Append(submits,
          [formData |-> Some([markerImage |-> markerFile[1],
                              contentFile |-> contentFile[1],
                              name        |-> name,
                              description |-> description,
                              contentType |-> "video"]),
           pc |-> "fetch", live |-> TRUE, request |-> 0])
    /\ UNCHANGED <<appVars, serverVars, disk, limit, markerFile, markerValidation, calls,
                   contentFile, name, description, alerts, completions>>

\* HandleSubmit of a form that can be submitted while it uploads.
HandleSubmitUnguarded ==
    /\ viewMode = "upload"
    /\ markerFile # Null /\ contentFile # Null /\ Trim(name) # <<>>
    /\ Len(submits) < limit.submits
    /\ uploading' = TRUE
    /\ submits' = Append(submits,
          [formData |-> Some([markerImage |-> markerFile[1],
                              contentFile |-> contentFile[1],
                              name        |-> name,
                              description |-> description,
                              contentType |-> IF IsVideoType(contentFile[1])
                                              THEN "video" ELSE "model"]),
           pc |-> "fetch", live |-> TRUE, request |-> 0])
    /\ UNCHANGED <<appVars, serverVars, disk, limit, markerFile, markerValidation, calls,
                   contentFile, name, description, alerts, completions>>

\* An invocation of handleSubmit: pc is "fetch" while it awaits the response
\* and formData the body it has sent, "done" or "failed" once it has returned;
\* live tells whether the form that made it is still mounted, request which
\* invocation of upload-experience its fetch has started (0: none).
\*
\* handleSubmit up to its await of fetch (lines 122-141).  The submit button
\* is disabled (line 362) unless the three fields are set and no upload is
\* running, and a form whose submit button is disabled is not submitted.
HandleSubmit ==
    /\ viewMode = "upload"
    /\ markerFile # Null /\ contentFile # Null /\ Trim(name) # <<>>
    /\ ~uploading
    /\ Len(submits) < limit.submits
    /\ uploading' = TRUE
    /\ submits' = Append(submits,
          [formData |-> Some([markerImage |-> markerFile[1],
                              contentFile |-> contentFile[1],
                              name        |-> name,
                              description |-> description,
                              contentType |-> IF IsVideoType(contentFile[1])
                                              THEN "video" ELSE "model"]),
           pc |-> "fetch", live |-> TRUE, request |-> 0])
    /\ UNCHANGED <<appVars, serverVars, disk, limit, markerFile, markerValidation, calls,
                   contentFile, name, description, alerts, completions>>

\* The calls of validateMarkerImage once the form is unmounted: the
\* continuation of a handleMarkerUpload that still waits will call
\* setMarkerValidation of an unmounted component, which does nothing.
DetachedCalls ==
    [c \in 1 .. Len(calls) |->
        IF calls[c].awaiter = "waiting"
        THEN [calls[c] EXCEPT !.awaiter = "detached"]
        ELSE calls[c]]

\* The upload form is unmounted, or none is mounted: the state its next
\* instance starts with (lines 17-22).
UnmountForm ==
    /\ markerFile' = Null
    /\ contentFile' = Null
    /\ name' = <<>>
    /\ description' = <<>>
    /\ markerValidation' = Null
    /\ uploading' = FALSE
    /\ calls' = DetachedCalls

\* App.handleUploadComplete (App.tsx lines 17-19): setViewMode('gallery').
\* Unless the gallery is shown already, App renders a new gallery in place
\* of the form or the viewer it showed.
HandleUploadComplete ==
    /\ viewMode' = "gallery"
    /\ gallery' = IF viewMode = "gallery" THEN gallery ELSE GalleryMounted
    /\ UNCHANGED selectedExperience

\* handleSubmit after its awaits when the response is ok and its body parses
\* (lines 147-155, 160): onUploadComplete, which is App.handleUploadComplete,
\* the reset of the form, finally.  The form that submitted is reset and,
\* like any form mounted in its place since, unmounted by the change of view.
ResumeHandleSubmit(s) ==
    /\ s \in 1 .. Len(submits)
    /\ submits[s].pc = "fetch"
    /\ completions' = completions + 1
    /\ HandleUploadComplete
    /\ UnmountForm
    /\ submits' = [t \in 1 .. Len(submits) |->
                     IF t = s THEN [formData |-> Null, pc |-> "done",
                                    live |-> FALSE, request |-> 0]
                     ELSE [submits[t] EXCEPT !.live = FALSE]]
    /\ UNCHANGED <<serverVars, disk, limit, alerts>>

\* CatchHandleSubmit resetting the form as a successful upload does.
CatchHandleSubmitResetting(s) ==
    /\ s \in 1 .. Len(submits)
    /\ submits[s].pc = "fetch"
    /\ alerts' = alerts + 1
    /\ markerFile' = Null
    /\ contentFile' = Null
    /\ name' = <<>>
    /\ description' = <<>>
    /\ markerValidation' = Null
    /\ uploading' = IF submits[s].live THEN FALSE ELSE uploading
    /\ submits' = [submits EXCEPT ![s] = [formData |-> Null, pc |-> "failed",
                                          live |-> FALSE, request |-> 0]]
    /\ UNCHANGED <<appVars, serverVars, disk, limit, calls, completions>>

\* handleSubmit when fetch rejects, the response is not ok or its body does
\* not parse (lines 143-145, 156-160): catch, alert, finally.  setUploading
\* acts on the form that submitted, if it is still mounted.
CatchHandleSubmit(s) ==
    /\ s \in 1 .. Len(submits)
    /\ submits[s].pc = "fetch"
    /\ alerts' = alerts + 1
    /\ uploading' = IF submits[s].live THEN FALSE ELSE uploading
    /\ submits' = [submits EXCEPT ![s] = [formData |-> Null, pc |-> "failed",
                                          live |-> FALSE, request |-> 0]]
    /\ UNCHANGED <<appVars, serverVars, disk, limit, markerFile,
                   markerValidation, calls, contentFile, name, description,
                   completions>>

(***************************************************************************)
(* App and the gallery.                                                    *)
(***************************************************************************)
\* the gallery shows its header and its cards: neither the spinner (lines
\* 52-61) nor the error panel (lines 63-84)
GalleryShown ==
    viewMode = "gallery" /\ ~gallery.loading /\ ~gallery.error

\* App.handleCreateNew (App.tsx lines 13-15), from a Create button of the
\* gallery: the gallery is unmounted and a new upload form is mounted.
HandleCreateNew ==
    /\ GalleryShown
    /\ viewMode' = "upload"
    /\ gallery' = GalleryMounted
    /\ UNCHANGED <<selectedExperience, serverVars, disk, limit, markerFile,
                   markerValidation, calls, formVars>>

\* HandleViewExperience without setSelectedExperience.
HandleViewExperienceUnselected(experience) ==
    /\ GalleryShown
    /\ experience \in gallery.experiences
    /\ experience.status = "ready"
    /\ viewMode' = "viewer"
    /\ gallery' = GalleryMounted
    /\ UNCHANGED <<selectedExperience, serverVars, disk, limit, markerFile,
                   markerValidation, calls, formVars>>

\* HandleViewExperience from a button that is never disabled.
HandleViewExperienceAny(experience) ==
    /\ GalleryShown
    /\ experience \in gallery.experiences
    /\ selectedExperience' = Some(experience)
    /\ viewMode' = "viewer"
    /\ gallery' = GalleryMounted
    /\ UNCHANGED <<serverVars, disk, limit, markerFile, markerValidation,
                   calls, formVars>>

\* onViewExperience(experience) of a card's button, which is disabled unless
\* experience.status is 'ready' (ExperienceGallery.tsx lines 164-166), that
\* is App.handleViewExperience (App.tsx lines 21-24)
HandleViewExperience(experience) ==
    /\ GalleryShown
    /\ experience \in gallery.experiences
    /\ experience.status = "ready"
    /\ selectedExperience' = Some(experience)
    /\ viewMode' = "viewer"
    /\ gallery' = GalleryMounted
    /\ UNCHANGED <<serverVars, disk, limit, markerFile, markerValidation,
                   calls, formVars>>

\* App.handleBackToGallery (App.tsx lines 26-29), from the link under the
\* upload form or the Back button of the viewer: the form or the viewer is
\* unmounted and a new gallery is mounted.
HandleBackToGallery ==
    /\ viewMode \in {"upload", "viewer"}
    /\ selectedExperience' = Null
    /\ viewMode' = "gallery"
    /\ gallery' = GalleryMounted
    /\ UnmountForm
    /\ submits' = [t \in 1 .. Len(submits) |->
                     [submits[t] EXCEPT !.live = FALSE]]
    /\ UNCHANGED <<serverVars, disk, limit, alerts, completions>>

\* loadExperiences after its await when getExperiences returns the rows of
\* the table (ExperienceGallery.tsx lines 20-21, 26)
LoadExperiencesResolves ==
    /\ viewMode = "gallery"
    /\ gallery.loading
    /\ gallery' = [gallery EXCEPT !.loading = FALSE,
                                  !.experiences = experiences]
    /\ UNCHANGED <<viewMode, selectedExperience, serverVars, disk, limit,
                   markerFile, markerValidation, calls, formVars>>

\* loadExperiences when getExperiences throws (lines 22-26)
LoadExperiencesRejects ==
    /\ viewMode = "gallery"
    /\ gallery.loading
    /\ gallery' = [gallery EXCEPT !.loading = FALSE, !.error = TRUE]
    /\ UNCHANGED <<viewMode, selectedExperience, serverVars, disk, limit,
                   markerFile, markerValidation, calls, formVars>>

\* loadExperiences up to its await, from the Retry button of the error
\* panel (lines 16-20, 74-75)
LoadExperiences ==
    /\ viewMode = "gallery"
    /\ ~gallery.loading /\ gallery.error
    /\ gallery' = [gallery EXCEPT !.loading = TRUE, !.error = FALSE]
    /\ UNCHANGED <<viewMode, selectedExperience, serverVars, disk, limit,
                   markerFile, markerValidation, calls, formVars>>

(***************************************************************************)
(* The edge functions upload-experience and process-marker.                *)
(***************************************************************************)
\* A File of a request's form data: its name as the parts between the dots.
MarkerUpload == [name |-> <<"a", "png">>]
VideoUpload  == [name |-> <<"clip", "mp4">>]
ModelUpload  == [name |-> <<"model", "glb">>]

\* name.split('.').pop()
Ext(file) == file.name[Len(file.name)]

\* The fields formData.get(..) returns: Null for a field that is not sent.
FormData(marker, content, title, kind) ==
    [markerImage |-> marker, contentFile |-> content, name |-> title,
     description |-> Some(<<"d">>), contentType |-> kind]

\* the request bodies clients send
Bodies ==
    { FormData(Some(MarkerUpload), Some(VideoUpload), Some(<<"A">>), Some("video")),
      FormData(Some(MarkerUpload), Some(ModelUpload), Some(<<"A">>), Some("model")),
      FormData(Some(MarkerUpload), Some(ModelUpload), Some(<<"A">>), Some("3d")),
      FormData(Null, Some(VideoUpload), Some(<<"A">>), Some("video")),
      FormData(Some(MarkerUpload), Some(VideoUpload), Some(<<>>), Some("video")) }

\* if (!markerImage || !contentFile || !name): the empty string is falsy
MissingFields(body) ==
    \/ body.markerImage = Null
    \/ body.contentFile = Null
    \/ body.name = Null \/ body.name = Some(<<>>)

\* `${experienceId}_marker.${markerImageExt}` and
\* `${experienceId}_content.${contentFileExt}`
MarkerImagePath(id, file) == <<id, "_marker.", Ext(file)>>
ContentFilePath(id, file) == <<id, "_content.", Ext(file)>>

\* supabase.storage.from(bucket).getPublicUrl(path).data.publicUrl
PublicUrl(bucket, path) == [bucket |-> bucket, path |-> path]

\* the row of lines 78-86
NewExperience(id, body) ==
    [id               |-> id,
     name             |-> body.name,
     description      |-> body.description,
     marker_image_url |-> PublicUrl("ar-markers",
                                    MarkerImagePath(id, body.markerImage[1])),
     content_url      |-> PublicUrl("ar-content",
                                    ContentFilePath(id, body.contentFile[1])),
     content_type     |-> body.contentType,
     status           |-> "processing",
     marker_mind_url  |-> Null,
     marker_fset_url  |-> Null,
     marker_fset3_url |-> Null]

\* the constraints of the table ar_experiences on an inserted row
RowAccepted(row) ==
    /\ row.name # Null
    /\ row.content_type \in {Some("video"), Some("model")}
    /\ row.status \in {"processing", "ready", "failed"}
    /\ \A e \in experiences : e.id # row.id

MaxRequests == 2

\* upload-experience answering request r with the given status
Answer(r, status) ==
    requests' = [requests EXCEPT ![r].pc = "done", ![r].status = status]

AtStep(r, pc) == r \in 1 .. Len(requests) /\ requests[r].pc = pc

\* An invocation of upload-experience at its first storage call (lines
\* 15-38): the form data is read and crypto.randomUUID() yields an id no
\* earlier call had.  patches lists the status values process-marker has
\* sent in PATCH requests for the invocation's experience.
Received(body) ==
    IF MissingFields(body)
    THEN [body |-> body, id |-> Null, pc |-> "done", status |-> 500,
          processMarker |-> 0, patches |-> <<>>]
    ELSE [body |-> body, id |-> Some(Len(requests) + 1),
          pc |-> "uploadMarker", status |-> 0, processMarker |-> 0,
          patches |-> <<>>]

\* a request of any client reaches upload-experience
Serve(body) ==
    /\ Len(requests) < MaxRequests
    /\ requests' = Append(requests, Received(body))
    /\ UNCHANGED <<appVars, disk, limit, markerFile, markerValidation, calls, formVars,
                   markers, contents, experiences>>

\* The upload of the marker image (lines 40-49); error is what the storage
\* call returns as markerImageError.
UploadMarker(r, error) ==
    /\ AtStep(r, "uploadMarker")
    /\ IF error
       THEN /\ Answer(r, 500)
            /\ markers' = markers
       ELSE /\ markers' = markers \cup
                  { [path |-> MarkerImagePath(requests[r].id[1],
                                              requests[r].body.markerImage[1]),
                     file |-> requests[r].body.markerImage[1]] }
            /\ requests' = [requests EXCEPT ![r].pc = "uploadContent"]
    /\ UNCHANGED <<appVars, disk, limit, markerFile, markerValidation, calls, formVars,
                   contents, experiences>>

\* UploadContent going on after a contentFileError.
UploadContentUnchecked(r, error) ==
    /\ AtStep(r, "uploadContent")
    /\ contents' =
          IF error THEN contents
          ELSE contents \cup
                 { [path |-> ContentFilePath(requests[r].id[1],
                                             requests[r].body.contentFile[1]),
                    file |-> requests[r].body.contentFile[1]] }
    /\ requests' = [requests EXCEPT ![r].pc = "insert"]
    /\ UNCHANGED <<appVars, disk, limit, markerFile, markerValidation, calls, formVars,
                   markers, experiences>>

\* The upload of the content file (lines 55-64)
UploadContent(r, error) ==
    /\ AtStep(r, "uploadContent")
    /\ IF error
       THEN /\ Answer(r, 500)
            /\ contents' = contents
       ELSE /\ contents' = contents \cup
                  { [path |-> ContentFilePath(requests[r].id[1],
                                              requests[r].body.contentFile[1]),
                     file |-> requests[r].body.contentFile[1]] }
            /\ requests' = [requests EXCEPT ![r].pc = "insert"]
    /\ UNCHANGED <<appVars, disk, limit, markerFile, markerValidation, calls, formVars,
                   markers, experiences>>

\* The insert of the experience record (lines 67-92); error is a failure of
\* the database call, and a row the table's constraints reject fails too.
InsertExperience(r, error) ==
    /\ AtStep(r, "insert")
    /\ \E row \in {NewExperience(requests[r].id[1], requests[r].body)} :
           IF error \/ ~RowAccepted(row)
           THEN /\ Answer(r, 500)
                /\ experiences' = experiences
           ELSE /\ experiences' = experiences \cup {row}
                /\ requests' = [requests EXCEPT ![r].pc = "trigger"]
    /\ UNCHANGED <<appVars, disk, limit, markerFile, markerValidation, calls, formVars,
                   markers, contents>>

\* The fetch of process-marker (lines 95-108): the request reaches the
\* function, or fetch rejects and the catch block answers 500.
TriggerProcessMarker(r, error) ==
    /\ AtStep(r, "trigger")
    /\ IF error
       THEN Answer(r, 500)
       ELSE requests' = [requests EXCEPT ![r].pc = "processMarker"]
    /\ UNCHANGED <<appVars, disk, limit, markerFile, markerValidation, calls, formVars,
                   markers, contents, experiences>>

\* process-marker for the experience of request r (process-marker/index.ts
\* lines 19-103).  The PATCH sets the status 'ready' and the three marker
\* urls and the function answers 200; when the PATCH fails the catch block
\* runs, where req.clone() throws because the body was read at line 20, so
\* no second PATCH is sent, no status is written and the function answers
\* 500.
ProcessMarker(r, error) ==
    /\ AtStep(r, "processMarker")
    /\ experiences' =
          IF error THEN experiences
          ELSE { IF e.id = requests[r].id[1]
                 THEN [e EXCEPT !.status = "ready",
                                !.marker_mind_url  = Some("hiro"),
                                !.marker_fset_url  = Some("hiro"),
                                !.marker_fset3_url = Some("hiro")]
                 ELSE e : e \in experiences }
    /\ requests' = [requests EXCEPT ![r].pc = "respond",
                                    ![r].patches = Append(@, "ready"),
                                    ![r].processMarker =
                                        IF error THEN 500 ELSE 200]
    /\ UNCHANGED <<appVars, disk, limit, markerFile, markerValidation, calls, formVars,
                   markers, contents>>

\* upload-experience after the response of process-marker (lines 110-125):
\* a response that is not ok is logged, the answer is 200 either way
Respond(r) ==
    /\ AtStep(r, "respond")
    /\ Answer(r, 200)
    /\ UNCHANGED <<appVars, disk, limit, markerFile, markerValidation, calls, formVars,
                   markers, contents, experiences>>

(***************************************************************************)
(* The form's fetch and upload-experience.                                 *)
(***************************************************************************)
\* name.split('.') over the names of the files above
Split(n) ==
    CASE n = "a.png"     -> <<"a", "png">>
      [] n = "clip.mp4"  -> <<"clip", "mp4">>
      [] n = "model.glb" -> <<"model", "glb">>

\* The form data of handleSubmit (UploadInterface.tsx lines 126-133) as
\* upload-experience reads it (lines 16-22): every field is present.
Sent(formData) ==
    [markerImage |-> Some([name |-> Split(formData.markerImage.name)]),
     contentFile |-> Some([name |-> Split(formData.contentFile.name)]),
     name        |-> Some(formData.name),
     description |-> Some(formData.description),
     contentType |-> Some(formData.contentType)]

\* The fetch of submission s (lines 138-141) reaches upload-experience.
Deliver(s) ==
    /\ s \in 1 .. Len(submits)
    /\ submits[s].pc = "fetch"
    /\ submits[s].request = 0
    /\ Len(requests) < MaxRequests
    /\ requests' = Append(requests, Received(Sent(submits[s].formData[1])))
    /\ submits' = [submits EXCEPT ![s].request = Len(requests) + 1]
    /\ UNCHANGED <<appVars, disk, limit, markerFile, markerValidation, calls,
                   contentFile, name, description, uploading, alerts,
                   completions, markers, contents, experiences>>

\* The response of upload-experience to submission s is ok (line 143).
ResponseOk(s) ==
    /\ s \in 1 .. Len(submits)
    /\ submits[s].request # 0
    /\ requests[submits[s].request].status = 200
    /\ ResumeHandleSubmit(s)

\* The response is not ok, or fetch rejects at any moment.
ResponseFails(s) ==
    /\ s \in 1 .. Len(submits)
    /\ IF submits[s].request = 0 THEN TRUE
       ELSE requests[submits[s].request].status # 200
    /\ CatchHandleSubmit(s)

Next ==
    \/ \E file \in disk : MarkerInputChange(file)
    \/ \E file \in disk : HandleDropMarker(file)
    \/ \E c \in 1 .. MaxCalls : ImgOnload(c)
    \/ \E c \in 1 .. MaxCalls : ImgError(c)
    \/ \E c \in 1 .. MaxCalls : ResumeHandleMarkerUpload(c)

Spec == Init /\ [][Next]_vars

SpecSmall == InitSmall /\ [][Next]_vars

SpecLarge == InitLarge /\ [][Next]_vars

\* The browser delivers the load event of a decodable image and runs the
\* continuation of a fulfilled promise.
FairSpec ==
    /\ InitFair /\ [][Next]_vars
    /\ \A c \in 1 .. MaxCalls : WF_vars(ImgOnload(c))
    /\ \A c \in 1 .. MaxCalls : WF_vars(ResumeHandleMarkerUpload(c))

\* The whole form: the marker and its validation, the other fields and the
\* submission.
MaxFormCalls == 1

InitForm ==
    /\ disk = UploadDisk
    /\ limit = [calls |-> MaxFormCalls, submits |-> MaxSubmits]
    /\ markerFile = Null
    /\ markerValidation = Null
    /\ calls = <<>>
    /\ InitFields
    /\ InitServer
    /\ InitUploadView

NextForm ==
    \/ \E file \in disk : MarkerInputChange(file)
    \/ \E file \in disk : HandleDropMarker(file)
    \/ \E c \in 1 .. MaxCalls : ImgOnload(c)
    \/ \E c \in 1 .. MaxCalls : ImgError(c)
    \/ \E c \in 1 .. MaxCalls : ResumeHandleMarkerUpload(c)
    \/ \E file \in disk : ContentInputChange(file)
    \/ \E file \in disk : HandleDropContent(file)
    \/ \E value \in Names : SetName(value)
    \/ \E value \in Descriptions : SetDescription(value)
    \/ HandleSubmit
    \/ \E s \in 1 .. MaxSubmits : ResumeHandleSubmit(s)
    \/ \E s \in 1 .. MaxSubmits : CatchHandleSubmit(s)

SpecForm == InitForm /\ [][NextForm]_vars

\* The two edge functions serving the requests of any clients.
InitEndpoint ==
    /\ disk = {}
    /\ limit = [calls |-> 0, submits |-> MaxSubmits]
    /\ markerFile = Null
    /\ markerValidation = Null
    /\ calls = <<>>
    /\ InitFields
    /\ InitServer
    /\ InitApp

NextServer ==
    \/ \E body \in Bodies : Serve(body)
    \/ \E r \in 1 .. MaxRequests, error \in BOOLEAN : UploadMarker(r, error)
    \/ \E r \in 1 .. MaxRequests, error \in BOOLEAN : UploadContent(r, error)
    \/ \E r \in 1 .. MaxRequests, error \in BOOLEAN : InsertExperience(r, error)
    \/ \E r \in 1 .. MaxRequests, error \in BOOLEAN :
           TriggerProcessMarker(r, error)
    \/ \E r \in 1 .. MaxRequests, error \in BOOLEAN : ProcessMarker(r, error)
    \/ \E r \in 1 .. MaxRequests : Respond(r)

SpecServer == InitEndpoint /\ [][NextServer]_vars

\* Every call an edge function has started returns, with a result or an
\* error, and the function goes on: each request gets its response.
FairServer ==
    /\ InitEndpoint /\ [][NextServer]_vars
    /\ \A r \in 1 .. MaxRequests :
          /\ WF_vars(\E error \in BOOLEAN : UploadMarker(r, error))
          /\ WF_vars(\E error \in BOOLEAN : UploadContent(r, error))
          /\ WF_vars(\E error \in BOOLEAN : InsertExperience(r, error))
          /\ WF_vars(\E error \in BOOLEAN : TriggerProcessMarker(r, error))
          /\ WF_vars(\E error \in BOOLEAN : ProcessMarker(r, error))
          /\ WF_vars(Respond(r))

\* The application from its start, with a table that holds the rows of two
\* earlier uploads, one of them processed.
\* One form that is submitted again after a failure, in a session with a
\* marker image that decodes and a video.
MaxFormSubmits == 2

InitSubmit ==
    /\ disk = AppDisk
    /\ limit = [calls |-> MaxFormCalls, submits |-> MaxFormSubmits]
    /\ markerFile = Null
    /\ markerValidation = Null
    /\ calls = <<>>
    /\ InitFields
    /\ InitServer
    /\ InitUploadView

NextSubmit ==
    \/ \E file \in disk : MarkerInputChange(file)
    \/ \E file \in disk : HandleDropMarker(file)
    \/ \E c \in 1 .. MaxCalls : ImgOnload(c)
    \/ \E c \in 1 .. MaxCalls : ResumeHandleMarkerUpload(c)
    \/ \E file \in disk : ContentInputChange(file)
    \/ \E file \in disk : HandleDropContent(file)
    \/ \E value \in Names : SetName(value)
    \/ \E value \in Descriptions : SetDescription(value)
    \/ HandleSubmit
    \/ \E s \in 1 .. MaxFormSubmits : ResumeHandleSubmit(s)
    \/ \E s \in 1 .. MaxFormSubmits : CatchHandleSubmit(s)

SpecSubmit == InitSubmit /\ [][NextSubmit]_vars

\* A session with a video and a model file, in front of the edge functions.
LinkDisk == { VideoFile, ModelFile }

InitLinked ==
    /\ disk = LinkDisk
    /\ limit = [calls |-> MaxFormCalls, submits |-> MaxSubmits]
    /\ markerFile = Null
    /\ markerValidation = Null
    /\ calls = <<>>
    /\ InitFields
    /\ InitServer
    /\ InitUploadView

NextLinked ==
    \/ \E file \in disk : MarkerInputChange(file)
    \/ \E file \in disk : ContentInputChange(file)
    \/ \E file \in disk : HandleDropContent(file)
    \/ \E value \in Names : SetName(value)
    \/ \E value \in Descriptions : SetDescription(value)
    \/ HandleSubmit
    \/ \E s \in 1 .. MaxSubmits : Deliver(s)
    \/ \E s \in 1 .. MaxSubmits : ResponseOk(s)
    \/ \E s \in 1 .. MaxSubmits : ResponseFails(s)
    \/ \E r \in 1 .. MaxRequests, error \in BOOLEAN : UploadMarker(r, error)
    \/ \E r \in 1 .. MaxRequests, error \in BOOLEAN : UploadContent(r, error)
    \/ \E r \in 1 .. MaxRequests, error \in BOOLEAN : InsertExperience(r, error)
    \/ \E r \in 1 .. MaxRequests, error \in BOOLEAN :
           TriggerProcessMarker(r, error)
    \/ \E r \in 1 .. MaxRequests, error \in BOOLEAN : ProcessMarker(r, error)
    \/ \E r \in 1 .. MaxRequests : Respond(r)

SpecLinked == InitLinked /\ [][NextLinked]_vars

StoredRows ==
    { NewExperience(1, FormData(Some(MarkerUpload), Some(VideoUpload),
                                Some(<<"A">>), Some("video"))),
      [NewExperience(2, FormData(Some(MarkerUpload), Some(ModelUpload),
                                 Some(<<"A">>), Some("model")))
          EXCEPT !.status = "ready",
                 !.marker_mind_url  = Some("hiro"),
                 !.marker_fset_url  = Some("hiro"),
                 !.marker_fset3_url = Some("hiro")] }

InitWhole ==
    /\ disk = AppDisk
    /\ limit = [calls |-> MaxFormCalls, submits |-> MaxSubmits]
    /\ markerFile = Null
    /\ markerValidation = Null
    /\ calls = <<>>
    /\ InitFields
    /\ markers = {}
    /\ contents = {}
    /\ experiences = StoredRows
    /\ requests = <<>>
    /\ InitApp

NextApp ==
    \/ HandleCreateNew
    \/ \E experience \in gallery.experiences : HandleViewExperience(experience)
    \/ HandleBackToGallery
    \/ LoadExperiencesResolves
    \/ LoadExperiencesRejects
    \/ LoadExperiences
    \/ \E file \in disk : MarkerInputChange(file)
    \/ \E file \in disk : HandleDropMarker(file)
    \/ \E c \in 1 .. MaxCalls : ImgOnload(c)
    \/ \E c \in 1 .. MaxCalls : ResumeHandleMarkerUpload(c)
    \/ \E file \in disk : ContentInputChange(file)
    \/ \E file \in disk : HandleDropContent(file)
    \/ \E value \in Names : SetName(value)
    \/ \E value \in Descriptions : SetDescription(value)
    \/ HandleSubmit
    \/ \E s \in 1 .. MaxSubmits : ResumeHandleSubmit(s)
    \/ \E s \in 1 .. MaxSubmits : CatchHandleSubmit(s)

SpecApp == InitWhole /\ [][NextApp]_vars

(***************************************************************************)
(* Properties.                                                             *)
(***************************************************************************)
Calls == 1 .. Len(calls)

Fulfilled(c) == calls[c].promise = "fulfilled"
ImageOf(c)   == calls[c].file.decoded[1]
ResultOf(c)  == calls[c].value[1]
LocalsOf(c)  == calls[c].locals[1]

Member(x, seq) == \E k \in 1 .. Len(seq) : seq[k] = x

InQualityRange(q) ==
    /\ ~RatLess(q, RatInt(60))
    /\ ~RatLess(RatInt(100), q)
    /\ QualityColour(q) # "red"

\* C1: every validation result, as resolved and as displayed, has a quality
\* between 60 and 100, so the red branch of the quality display is not taken.
C1_QualityBetween60And100 ==
    /\ \A c \in Calls : Fulfilled(c) => InQualityRange(ResultOf(c).quality)
    /\ markerValidation # Null => InQualityRange(markerValidation[1].quality)

\* a displayed result whose unclamped score is 0 and whose quality is 60
C1_Witness ==
    \E c \in Calls :
        /\ calls[c].awaiter = "resumed"
        /\ LocalsOf(c).totalContrast = RatInt(0)
        /\ LocalsOf(c).edgeCount = 0
        /\ markerValidation = calls[c].value
        /\ markerValidation[1].quality = RatInt(60)

\* C2: a file that does not decode makes validateMarkerImage fail: once the
\* decoding of a call's image has failed, the call's promise is rejected.
C2_DecodeFailureRejects ==
    \A c \in Calls : calls[c].img = "error" => calls[c].promise = "rejected"

\* C3: a call on a decodable image is eventually fulfilled and its result
\* delivered to handleMarkerUpload, and resolve is never called twice.
C3_CompletesExactlyOnce ==
    /\ [](\A c \in Calls : calls[c].resolved <= 1)
    /\ \A c \in 1 .. MaxCalls :
          (c \in Calls /\ calls[c].file.decoded # Null)
              ~> (/\ c \in Calls
                  /\ Fulfilled(c)
                  /\ calls[c].resolved = 1
                  /\ calls[c].awaiter = "resumed")

C3_Witness ==
    \E c \in Calls :
        /\ calls[c].file.decoded # Null
        /\ Fulfilled(c)
        /\ calls[c].resolved = 1
        /\ calls[c].awaiter = "resumed"

C5_ResolutionIssueIff ==
    \A c \in Calls : Fulfilled(c) =>
        LET img == ImageOf(c)
            low == img.width < 256 \/ img.height < 256
        IN  /\ Member("Image resolution is too low", ResultOf(c).issues) <=> low
            /\ Member("Use images with at least 256x256 resolution",
                      ResultOf(c).recommendations) <=> low
            /\ (img.width = 100 /\ img.height = 100) =>
                   /\ Member("Image resolution is too low", ResultOf(c).issues)
                   /\ Member("Use images with at least 256x256 resolution",
                             ResultOf(c).recommendations)

\* a 100x100 image of full contrast reported with the resolution issue
C5_Witness ==
    \E c \in Calls :
        /\ Fulfilled(c)
        /\ ImageOf(c).width = 100 /\ ImageOf(c).height = 100
        /\ ~Member("Low contrast detected", ResultOf(c).issues)
        /\ Member("Image resolution is too low", ResultOf(c).issues)

\* C6: the aspect-ratio issue and its recommendation are reported exactly
\* when width/height < 1/2 or > 2 (2 * width < height or width > 2 * height);
\* a 1000x100 image has both.
C6_AspectIssueIff ==
    \A c \in Calls : Fulfilled(c) =>
        LET img     == ImageOf(c)
            unusual == 2 * img.width < img.height \/ img.width > 2 * img.height
        IN  /\ Member("Unusual aspect ratio detected", ResultOf(c).issues)
                  <=> unusual
            /\ Member("Use images with aspect ratios between 1:2 and 2:1",
                      ResultOf(c).recommendations) <=> unusual
            /\ (img.width = 1000 /\ img.height = 100) =>
                   /\ Member("Unusual aspect ratio detected", ResultOf(c).issues)
                   /\ Member("Use images with aspect ratios between 1:2 and 2:1",
                             ResultOf(c).recommendations)

\* an image of ratio exactly 2:1 validated without the aspect-ratio issue
C6_Witness ==
    \E c \in Calls :
        /\ Fulfilled(c)
        /\ ImageOf(c).width = 2 * ImageOf(c).height
        /\ ~Member("Unusual aspect ratio detected", ResultOf(c).issues)

\* C7: the contrast issue and its recommendation are reported exactly when
\* the avgContrast the handler computed is below 15.
C7_ContrastIssueIff ==
    \A c \in Calls : Fulfilled(c) =>
        LET low == RatLess(LocalsOf(c).avgContrast, RatInt(15))
        IN  /\ Member("Low contrast detected", ResultOf(c).issues) <=> low
            /\ Member("Use images with clear, high-contrast features",
                      ResultOf(c).recommendations) <=> low

\* an image whose avgContrast is exactly 15, validated without the issue
C7_Witness ==
    \E c \in Calls :
        /\ Fulfilled(c)
        /\ LocalsOf(c).avgContrast = RatInt(15)
        /\ ~Member("Low contrast detected", ResultOf(c).issues)

\* C8: the edge recommendation is given exactly when the edgeDensity the
\* handler computed is below 0.1, whatever the issues are.
C8_EdgeRecommendationIff ==
    \A c \in Calls : Fulfilled(c) =>
        (Member("Add more distinct features or patterns for better tracking",
                ResultOf(c).recommendations)
            <=> RatLess(LocalsOf(c).edgeDensity, Rat(1, 10)))

\* an image whose edgeDensity is exactly 0.1: three issues, no edge
\* recommendation
C8_Witness ==
    \E c \in Calls :
        /\ Fulfilled(c)
        /\ LocalsOf(c).edgeDensity = Rat(1, 10)
        /\ Len(ResultOf(c).issues) = 3
        /\ ~Member("Add more distinct features or patterns for better tracking",
                   ResultOf(c).recommendations)

\* a square image of one colour, at least 256 pixels wide
UniformSquare(img) ==
    /\ img.tw = 1 /\ img.th = 1
    /\ img.width = img.height
    /\ img.width >= 256

\* C9: a uniform image of at least 256x256 with ratio 1:1 has avgContrast 0
\* and edgeDensity 0, the contrast issue, and quality exactly 60.
C9_UniformImage ==
    \A c \in Calls : (Fulfilled(c) /\ UniformSquare(ImageOf(c))) =>
        /\ LocalsOf(c).avgContrast = RatInt(0)
        /\ LocalsOf(c).edgeDensity = RatInt(0)
        /\ Member("Low contrast detected", ResultOf(c).issues)
        /\ ResultOf(c).quality = RatInt(60)

\* a uniform image that is not black and larger than the threshold
C9_Witness ==
    \E c \in Calls :
        /\ Fulfilled(c)
        /\ UniformSquare(ImageOf(c))
        /\ ImageOf(c).width > 256
        /\ ImageOf(c).tile # <<Black>>

\* a 256x256 image whose rows alternate between black and white
AlternatingRows(img) ==
    /\ img.width = 256 /\ img.height = 256
    /\ img.tw = 1 /\ img.th = 2
    /\ img.tile \in {<<Black, White>>, <<White, Black>>}

\* C10: a 256x256 image of alternating black and white rows has no
\* contrast, resolution or aspect-ratio issue, and edgeCount > 0.
C10_AlternatingRows ==
    \A c \in Calls : (Fulfilled(c) /\ AlternatingRows(ImageOf(c))) =>
        /\ ~Member("Low contrast detected", ResultOf(c).issues)
        /\ ~Member("Image resolution is too low", ResultOf(c).issues)
        /\ ~Member("Unusual aspect ratio detected", ResultOf(c).issues)
        /\ LocalsOf(c).edgeCount > 0

C10_Witness ==
    \E c \in Calls :
        /\ Fulfilled(c)
        /\ AlternatingRows(ImageOf(c))
        /\ ResultOf(c).issues = <<>>

(***************************************************************************)
(* The pixel loop and the quality formula, stated without the loop.        *)
(***************************************************************************)
PixelCount(img) == img.width * img.height

\* |brightness - brightness above| of pixel p, in thirds
ContrastAbove(img, p) ==
    Abs(Brightness(img, p * BytesPerPixel)
        - Brightness(img, (p - img.width) * BytesPerPixel))

\* the sum of the contrasts of the pixels img.width .. p, in thirds
RECURSIVE ContrastFromSecondRow(_, _)
ContrastFromSecondRow(img, p) ==
    IF p < img.width THEN 0
    ELSE ContrastAbove(img, p) + ContrastFromSecondRow(img, p - 1)

\* the pixels with index at least img.width whose contrast exceeds 30
EdgesFromSecondRow(img) ==
    Cardinality({ p \in img.width .. PixelCount(img) - 1 :
                    ContrastAbove(img, p) > Thirds(30) })

\* C13: every pixel with index at least W is compared with the pixel one
\* row above it, the pixel with index W included: totalContrast is the sum
\* of those contrasts and edgeCount the number of them above 30.
C13_ComparedFromIndexW ==
    \A c \in Calls : Fulfilled(c) =>
        /\ LocalsOf(c).totalContrast
             = Rat(ContrastFromSecondRow(ImageOf(c), PixelCount(ImageOf(c)) - 1), 3)
        /\ LocalsOf(c).edgeCount = EdgesFromSecondRow(ImageOf(c))

\* min(100, max(60, x))
Clamp(x) ==
    IF RatLess(x, RatInt(60)) THEN RatInt(60)
    ELSE IF RatLess(RatInt(100), x) THEN RatInt(100)
    ELSE x

\* C14: quality is min(100, max(60, (avgContrast/30)*100 + edgeDensity*1000))
\* with avgContrast = totalContrast / (W*H) and edgeDensity = edgeCount /
\* (W*H): that is, the clamp of (10 totalContrast + 3000 edgeCount) / (3 W H).
C14_QualityFormula ==
    \A c \in Calls : Fulfilled(c) =>
        LET n == PixelCount(ImageOf(c))
            t == LocalsOf(c).totalContrast
        IN  /\ LocalsOf(c).avgContrast = Rat(t.num, t.den * n)
            /\ LocalsOf(c).edgeDensity = Rat(LocalsOf(c).edgeCount, n)
            /\ ResultOf(c).quality
                 = Clamp(Rat(10 * t.num + 3000 * LocalsOf(c).edgeCount * t.den,
                             3 * n * t.den))

\* an image of more than one row whose quality lies strictly between the
\* two clamps
C14_Witness ==
    \E c \in Calls :
        /\ Fulfilled(c)
        /\ ImageOf(c).height > 1
        /\ RatLess(RatInt(0), LocalsOf(c).totalContrast)
        /\ RatLess(RatInt(60), ResultOf(c).quality)
        /\ RatLess(ResultOf(c).quality, RatInt(100))

\* the entries of items whose flag holds, in the order of items
RECURSIVE Selected(_, _)
Selected(flags, items) ==
    IF items = <<>> THEN <<>>
    ELSE (IF Head(flags) THEN <<Head(items)>> ELSE <<>>)
         \o Selected(Tail(flags), Tail(items))

NoDuplicate(seq) ==
    \A j, k \in 1 .. Len(seq) : j # k => seq[j] # seq[k]

\* C15: issues is the subsequence of the three issue texts whose conditions
\* hold, in the order resolution, aspect ratio, contrast; recommendations is
\* the matching recommendations in that order followed by the edge-density
\* recommendation when edgeDensity < 0.1; neither holds a duplicate, issues
\* has at most 3 entries and recommendations at most 4.
C15_IssuesInOrder ==
    \A c \in Calls : Fulfilled(c) =>
        LET w     == ImageOf(c).width
            h     == ImageOf(c).height
            avg   == LocalsOf(c).avgContrast
            dens  == LocalsOf(c).edgeDensity
            flags == << w < 256 \/ h < 256,
                        2 * w < h \/ w > 2 * h,
                        avg.num < 15 * avg.den >>
        IN  /\ ResultOf(c).issues
                 = Selected(flags, << "Image resolution is too low",
                                      "Unusual aspect ratio detected",
                                      "Low contrast detected" >>)
            /\ ResultOf(c).recommendations
                 = Selected(flags \o << 10 * dens.num < dens.den >>,
                       << "Use images with at least 256x256 resolution",
                          "Use images with aspect ratios between 1:2 and 2:1",
                          "Use images with clear, high-contrast features",
                          "Add more distinct features or patterns for better tracking" >>)
            /\ NoDuplicate(ResultOf(c).issues)
            /\ NoDuplicate(ResultOf(c).recommendations)
            /\ Len(ResultOf(c).issues) <= 3
            /\ Len(ResultOf(c).recommendations) <= 4

\* an image with all three issues and all four recommendations
C15_Witness ==
    \E c \in Calls :
        /\ Fulfilled(c)
        /\ Len(ResultOf(c).issues) = 3
        /\ Len(ResultOf(c).recommendations) = 4

\* every row of the image equals the row above it
RowsIdentical(img) ==
    \A p \in img.width .. PixelCount(img) - 1 :
        PixelAt(img, p) = PixelAt(img, p - img.width)

\* C16: an image all of whose rows are identical, whatever the variation
\* along a row, has avgContrast 0 and edgeDensity 0, quality 60, the issue
\* 'Low contrast detected' and the edge-density recommendation.
C16_IdenticalRows ==
    \A c \in Calls : (Fulfilled(c) /\ RowsIdentical(ImageOf(c))) =>
        /\ LocalsOf(c).avgContrast = RatInt(0)
        /\ LocalsOf(c).edgeDensity = RatInt(0)
        /\ ResultOf(c).quality = RatInt(60)
        /\ Member("Low contrast detected", ResultOf(c).issues)
        /\ Member("Add more distinct features or patterns for better tracking",
                  ResultOf(c).recommendations)

\* several identical rows of alternating black and white columns
C16_Witness ==
    \E c \in Calls :
        /\ Fulfilled(c)
        /\ RowsIdentical(ImageOf(c))
        /\ ImageOf(c).height > 1
        /\ ImageOf(c).width > 1
        /\ PixelAt(ImageOf(c), 0) = Black
        /\ PixelAt(ImageOf(c), 1) = White

\* C17: when the recommendation 'Add more distinct features or patterns for
\* better tracking' is absent, which is when edgeDensity >= 0.1, quality is
\* exactly 100; every result with quality < 100 carries it.
C17_NoEdgeRecommendationMeansFullQuality ==
    \A c \in Calls : Fulfilled(c) =>
        LET absent ==
              ~Member("Add more distinct features or patterns for better tracking",
                      ResultOf(c).recommendations)
        IN  /\ absent <=> 10 * LocalsOf(c).edgeCount >= PixelCount(ImageOf(c))
            /\ absent => ResultOf(c).quality = RatInt(100)
            /\ RatLess(ResultOf(c).quality, RatInt(100)) => ~absent

\* edgeDensity exactly 0.1 with little contrast: the recommendation is
\* absent and the quality is 100
C17_Witness ==
    \E c \in Calls :
        /\ Fulfilled(c)
        /\ 10 * LocalsOf(c).edgeCount = PixelCount(ImageOf(c))
        /\ RatLess(LocalsOf(c).avgContrast, RatInt(15))
        /\ ResultOf(c).quality = RatInt(100)
        /\ ~Member("Add more distinct features or patterns for better tracking",
                   ResultOf(c).recommendations)

(***************************************************************************)
(* Overlapping validations, the endpoint, and the frame of a validation.   *)
(***************************************************************************)
\* a validation of a decodable image that has not completed yet
InFlight(c) == calls[c].promise = "pending" /\ calls[c].file.decoded # Null

\* C11 as stated: at any moment at most one marker validation is in flight;
\* a second validateMarkerImage call never starts while an earlier one has
\* not completed.
C11_AtMostOneInFlight ==
    \A c, d \in Calls : (InFlight(c) /\ InFlight(d)) => c = d

\* C11 amended: every selection or drop starts at most one validation, of
\* the file selected and only when it has an image type, without waiting
\* for the validations started before, which stay as they were.
C11_OneValidationPerSelection ==
    [][ /\ Len(calls') \in {Len(calls), Len(calls) + 1}
        /\ \A c \in Calls : calls'[c].file = calls[c].file
        /\ Len(calls') = Len(calls) + 1 =>
              /\ calls'[Len(calls')] = NewCall(markerFile'[1])
              /\ markerFile'[1].type = "image/png"
              /\ \A c \in Calls : calls'[c] = calls[c] ]_vars

\* two validations of different files in flight at the same moment
C11_Witness ==
    \E c, d \in Calls :
        /\ InFlight(c) /\ InFlight(d)
        /\ calls[c].file # calls[d].file

\* the objects stored at a path of a bucket
StoredAt(bucket, path) == { o \in bucket : o.path = path }

\* C12: when upload-experience has answered 200, the marker image and the
\* content file of the request are stored in their buckets and exactly one
\* experience record has the generated id, its marker url and content url
\* pointing at those two objects.
C12_SuccessMeansStoredAndRecorded ==
    \A r \in 1 .. Len(requests) : requests[r].status = 200 =>
        LET id   == requests[r].id[1]
            body == requests[r].body
            rows == { e \in experiences : e.id = id }
        IN  /\ Cardinality(rows) = 1
            /\ \A e \in rows :
                 /\ e.marker_image_url.bucket = "ar-markers"
                 /\ e.content_url.bucket = "ar-content"
                 /\ StoredAt(markers, e.marker_image_url.path)
                      = { [path |-> e.marker_image_url.path,
                           file |-> body.markerImage[1]] }
                 /\ StoredAt(contents, e.content_url.path)
                      = { [path |-> e.content_url.path,
                           file |-> body.contentFile[1]] }

\* a request answered 200 next to an earlier one that was answered 500
\* after its marker image had been stored
C12_Witness ==
    \E r, q \in 1 .. Len(requests) :
        /\ requests[r].status = 200
        /\ requests[q].status = 500
        /\ requests[q].id # Null
        /\ \E o \in markers : o.path[1] = requests[q].id[1]

\* C18: when a validation completes, markerValidation becomes that
\* validation's result, whether or not validations started later have
\* completed before it: the display shows the result of the validation
\* that completed last.
C18_CompletionOverwrites ==
    [][ \A c \in Calls :
          (calls[c].awaiter = "waiting" /\ calls'[c].awaiter = "resumed") =>
              /\ markerValidation' = calls[c].value
              /\ markerValidation' = Some(Onload(calls[c].file.decoded[1]).result)
      ]_vars

\* the validation started first has completed last: its result is on
\* display although the marker file is the one selected later
C18_Witness ==
    \E c, d \in Calls :
        /\ c < d
        /\ calls[c].awaiter = "resumed" /\ calls[d].awaiter = "resumed"
        /\ calls[c].value # calls[d].value
        /\ markerValidation = calls[c].value
        /\ markerFile = Some(calls[d].file)

\* C19: when the decoding of a selected marker image fails, the form comes
\* to show an error message to the user.
C19_DecodeFailureSurfaced ==
    \A c \in 1 .. MaxFairCalls :
        (c \in Calls /\ calls[c].img = "error") ~> (alerts > 0)

\* C20: a step of a validation (its start, the load or error event of its
\* image, the continuation of handleMarkerUpload) changes none of
\* contentFile, name, description and uploading, sends no request and
\* writes nothing to the buckets or the table; markerFile is only set by
\* the handleMarkerUpload that starts it and markerValidation only by the
\* continuation, to the validation's result.
C20_ValidationFrame ==
    [][ ( \/ Len(calls') > Len(calls)
          \/ \E c \in Calls :
                \/ calls'[c].img # calls[c].img
                \/ calls[c].awaiter = "waiting" /\ calls'[c].awaiter = "resumed" )
        =>
          /\ UNCHANGED <<contentFile, name, description, uploading>>
          /\ UNCHANGED <<submits, alerts, completions>>
          /\ UNCHANGED <<markers, contents, experiences, requests>>
          /\ markerFile' # markerFile => Len(calls') = Len(calls) + 1
          /\ markerValidation' # markerValidation =>
                \E c \in Calls :
                    /\ calls[c].awaiter = "waiting"
                    /\ calls'[c].awaiter = "resumed"
                    /\ markerValidation' = calls[c].value ]_vars

\* a validation has completed and is on display while the other fields are
\* filled in and an upload is running
C20_Witness ==
    \E c \in Calls :
        /\ calls[c].awaiter = "resumed"
        /\ markerValidation = calls[c].value
        /\ contentFile # Null /\ name # <<>> /\ description # <<>>
        /\ uploading
        /\ \E s \in 1 .. Len(submits) : submits[s].pc = "fetch"

(***************************************************************************)
(* The experience records and the requests that create them.               *)
(***************************************************************************)
Statuses == {"processing", "ready", "failed"}

ContentTypes == {Some("video"), Some("model")}

\* the rows a step inserts
Created == { e \in experiences' : \A old \in experiences : old.id # e.id }

\* C21: every experience record is created with status 'processing' and a
\* content_type of 'video' or 'model'; the status of a record is always one
\* of 'processing', 'ready' and 'failed'; the form sends the contentType
\* 'video' when the content file's MIME type starts with 'video/' and
\* 'model' otherwise.
C21_RecordsWellFormed ==
    /\ [](\A e \in experiences :
             e.status \in Statuses /\ e.content_type \in ContentTypes)
    /\ [](\A s \in 1 .. Len(submits) : \A d \in 1 .. Len(submits[s].formData) :
             submits[s].formData[d].contentType =
                 IF submits[s].formData[d].contentFile.type = "video/mp4"
                 THEN "video" ELSE "model")
    /\ [][ \A e \in Created :
             e.status = "processing" /\ e.content_type \in ContentTypes ]_vars

\* the record of a model file's submission, just inserted, the form still
\* waiting for the response
C21_Witness ==
    \E e \in experiences, s \in 1 .. Len(submits) :
        /\ e.status = "processing"
        /\ e.content_type = Some("model")
        /\ submits[s].pc = "fetch"
        /\ submits[s].request # 0
        /\ requests[submits[s].request].id = Some(e.id)
        /\ submits[s].formData[1].contentFile.type # "video/mp4"

\* the objects and rows upload-experience stored under the id of request r
Persisted(r) ==
    { o \in markers \cup contents : o.path[1] = requests[r].id[1] }
        \cup { e \in experiences : e.id = requests[r].id[1] }

\* C24: uploading is all-or-nothing: when upload-experience answers 500, no
\* experience record with the generated id and no marker or content object
\* of the request is stored, whichever step failed.
C24_NothingPersistsOn500 ==
    \A r \in 1 .. Len(requests) :
        (requests[r].status = 500 /\ requests[r].id # Null) =>
            Persisted(r) = {}

\* upload-experience's request to process-marker got no response: the only
\* way to an answer of 500 once the record is inserted
FetchRejected ==
    \E r \in 1 .. Len(requests) :
        /\ requests[r].status = 500
        /\ requests[r].id # Null
        /\ \E e \in experiences : e.id = requests[r].id[1]

\* C25: every experience record that is created eventually leaves the
\* status 'processing' (for 'ready' or 'failed'), given that every request
\* gets its response; also when process-marker answers with an error.
C25_LeavesProcessing ==
    [](~FetchRejected) =>
        \A id \in 1 .. MaxRequests :
            (\E e \in experiences : e.id = id /\ e.status = "processing")
                ~> (\E e \in experiences :
                        e.id = id /\ e.status \in {"ready", "failed"})

\* C26: when process-marker fails for a request that names an experienceId,
\* it has sent the update that sets the status 'failed' before it answers
\* 500.
C26_FailedStatusSent ==
    \A r \in 1 .. Len(requests) :
        requests[r].processMarker = 500 =>
            \E k \in 1 .. Len(requests[r].patches) :
                requests[r].patches[k] = "failed"

(***************************************************************************)
(* The marker on display.                                                  *)
(***************************************************************************)
\* C22: whenever markerValidation is non-null, markerFile is non-null and
\* markerValidation is the result of validating exactly that file, however
\* selections and completions interleave.
C22_ValidationOfMarkerFile ==
    markerValidation # Null =>
        /\ markerFile # Null
        /\ \E c \in Calls :
              /\ calls[c].file = markerFile[1]
              /\ calls[c].value = markerValidation

(***************************************************************************)
(* The submission of the form.                                             *)
(***************************************************************************)
\* the submissions whose request is in flight
Uploads == { s \in 1 .. Len(submits) : submits[s].pc = "fetch" }

Settles(s, pc) ==
    s \in Uploads /\ submits'[s].pc = pc

FormUnchanged ==
    UNCHANGED <<markerFile, contentFile, name, description, markerValidation>>

FormReset ==
    /\ markerFile' = Null /\ contentFile' = Null
    /\ name' = <<>> /\ description' = <<>>
    /\ markerValidation' = Null

\* C28 as stated: when the upload fails, onUploadComplete is not called and
\* markerFile, contentFile, name and description have the values they had
\* at submission; when it succeeds, onUploadComplete is called exactly once
\* and the form is reset.
C28_FailureRestoresSubmitted ==
    [][ \A s \in 1 .. Len(submits) :
          /\ Settles(s, "failed") =>
                /\ completions' = completions
                /\ markerFile' = Some(submits[s].formData[1].markerImage)
                /\ contentFile' = Some(submits[s].formData[1].contentFile)
                /\ name' = submits[s].formData[1].name
                /\ description' = submits[s].formData[1].description
          /\ Settles(s, "done") =>
                completions' = completions + 1 /\ FormReset ]_vars

\* C28: when the upload fails, onUploadComplete is not called and
\* markerFile, contentFile, name, description and markerValidation are left
\* as they are when the failure is handled; when it succeeds,
\* onUploadComplete is called exactly once and all five are reset.
C28_FailureKeepsForm ==
    [][ \A s \in 1 .. Len(submits) :
          /\ Settles(s, "failed") =>
                completions' = completions /\ FormUnchanged
          /\ Settles(s, "done") =>
                completions' = completions + 1 /\ FormReset ]_vars

\* a failed upload whose form was kept and submitted again, with success
C28_Witness ==
    /\ Len(submits) = 2
    /\ submits[1].pc = "failed"
    /\ submits[2].pc = "done"
    /\ completions = 1
    /\ markerFile = Null /\ contentFile = Null /\ name = <<>>

(***************************************************************************)
(* The views of App.                                                       *)
(***************************************************************************)
\* C23: the completion of an upload changes the view only from the upload
\* view of the form that submitted: it never closes the viewer, never
\* replaces an upload form opened since, and never leaves
\* selectedExperience non-null in a view other than the viewer.
C23_CompletionOnlyFromUploadView ==
    [][ \A s \in 1 .. Len(submits) :
          (submits[s].pc = "fetch" /\ submits'[s].pc = "done") =>
              /\ viewMode = "viewer" => viewMode' = "viewer"
              /\ (viewMode = "upload" /\ ~submits[s].live) => viewMode' = "upload"
              /\ selectedExperience' # Null => viewMode' = "viewer" ]_vars

\* C29: whenever viewMode is 'viewer', selectedExperience is non-null.
C29_ViewerHasExperience ==
    viewMode = "viewer" => selectedExperience # Null

\* the viewer opened after an upload has completed
C29_Witness ==
    /\ viewMode = "viewer"
    /\ selectedExperience # Null
    /\ completions > 0

\* C30: onViewExperience is only invoked for an experience whose status, as
\* loaded by the gallery, is 'ready': the selected experience never has the
\* status 'processing' or 'failed', in the viewer in particular.
C30_ViewerOnlyForReady ==
    \A k \in 1 .. Len(selectedExperience) :
        /\ selectedExperience[k].status = "ready"
        /\ selectedExperience[k].status \notin {"processing", "failed"}

\* the viewer shows a ready experience while the table also holds one that
\* is still processing
C30_Witness ==
    /\ viewMode = "viewer"
    /\ selectedExperience # Null
    /\ \E e \in experiences : e.status = "processing"

=============================================================================
